---- MODULE Spec2Model ----
(***************************************************************************)
(* Model of src/app.py: the Streamlit dashboard that ingests a multi-sheet *)
(* Excel workbook (load_data), scores each child (calculate_score),        *)
(* classifies the score (get_classification) and renders the metrics, the  *)
(* charts and the detail table.                                            *)
(*                                                                         *)
(* Cell values are strings.  A missing cell (pandas NaN/None) is NaN, a    *)
(* timestamp that could not be parsed is NaT.  Sheet names are sequences   *)
(* of characters so that str.strip() can be computed.  Numbers that may be *)
(* int or float in Python (a score, a mean, a rate) are exact fractions    *)
(* [num, den] with den > 0.                                                *)
(***************************************************************************)
EXTENDS Integers, Sequences, FiniteSets, TLC

VARIABLES
    dataDir,        \* os.path.exists('data')
    file,           \* what is stored at EXCEL_FILE_PATH
    cache,          \* the st.cache_data entry of load_data(EXCEL_FILE_PATH)
    pc,             \* position of the script run
    df,             \* module variable df (line 121), scored at lines 126-127
    df_filtered,    \* module variable df_filtered (line 149)
    messages,       \* st.error / st.warning elements of the current run
    metrics,        \* avg_score, classification_geral, the charts' frames, df_display
    served,         \* how line 121 was answered in this run: "body" or "cache"
    row,            \* argument of calculate_score
    score,          \* argument of get_classification
    out             \* value returned by a function applied on its own

vars == <<dataDir, file, cache, pc, df, df_filtered, messages, metrics,
          served, row, score, out>>

scriptVars ==
    <<dataDir, file, cache, pc, df, df_filtered, messages, metrics, served>>
unitVars == <<row, score, out>>

----------------------------------------------------------------------------
(* Values *)

NaN == "NaN"
NaT == "NaT"

isna(v) == v \in {NaN, NaT}
notna(v) == ~isna(v)

\* The value of a Python name that was never assigned.
Undefined == [kind |-> "undefined", rows |-> <<>>]
\* The None object returned by load_data.
None == [kind |-> "None", rows |-> <<>>]
DataFrame(rows) == [kind |-> "DataFrame", rows |-> rows]

is_None(v) == v.kind = "None"
\* DataFrame.empty
empty(v) == v.kind = "DataFrame" /\ v.rows = <<>>

Msg(level, kind, sheet) == [level |-> level, kind |-> kind, sheet |-> sheet]

\* Fractions
Num(n) == [num |-> n, den |-> 1]
Frac(n, d) == [num |-> n, den |-> d]
LT(a, b) == a.num * b.den < b.num * a.den
LE(a, b) == a.num * b.den <= b.num * a.den

Range(s) == {s[i] : i \in DOMAIN s}

RECURSIVE Flatten(_)
Flatten(ss) == IF ss = <<>> THEN <<>> ELSE Head(ss) \o Flatten(Tail(ss))

RECURSIVE SumSeq(_)
SumSeq(s) == IF s = <<>> THEN 0 ELSE Head(s) + SumSeq(Tail(s))

----------------------------------------------------------------------------
(* Scorer *)

indicadores == <<"A", "B", "C", "D", "E">>

RECURSIVE score_loop(_, _, _)
score_loop(r, k, acc) ==
    IF k > Len(indicadores) THEN acc
    ELSE score_loop(r, k + 1,
                    IF r[indicadores[k]] = "OK" THEN acc + 20 ELSE acc)

\* Variant: every present value counts, not only "OK".
calculate_score_any_value(r) ==
    Cardinality({k \in DOMAIN indicadores : notna(r[indicadores[k]])}) * 20

calculate_score(r) == score_loop(r, 1, 0)

\* Variant: lower bounds inclusive.
get_classification_inclusive(s) ==
    IF LE(Num(75), s) /\ LE(s, Num(100)) THEN "Ótimo"
    ELSE IF LE(Num(50), s) /\ LE(s, Num(75)) THEN "Bom"
    ELSE IF LE(Num(25), s) /\ LE(s, Num(50)) THEN "Suficiente"
    ELSE "Regular"

get_classification(s) ==
    IF LT(Num(75), s) /\ LE(s, Num(100)) THEN "Ótimo"
    ELSE IF LT(Num(50), s) /\ LE(s, Num(75)) THEN "Bom"
    ELSE IF LT(Num(25), s) /\ LE(s, Num(50)) THEN "Suficiente"
    ELSE "Regular"

----------------------------------------------------------------------------
(* Ingestor *)

column_names ==
    << "Nome", "DN", "Data_1_Puericultura", "Dias_1_Puericultura", "A",
       "Qtd_Puericultura", "B", "Qtd_Peso_Altura", "C",
       "Data_1_Visita_ACS", "Dias_1_Visita_ACS", "Data_2_Visita_ACS",
       "Dias_2_Visita_ACS", "D", "E" >>

ColIndex(c) == CHOOSE j \in DOMAIN column_names : column_names[j] = c

\* Characters str.strip() removes.
Whitespace == {" ", "\t", "\n", "\r", "\f"}

RECURSIVE lstrip(_)
lstrip(s) ==
    IF s # <<>> /\ Head(s) \in Whitespace THEN lstrip(Tail(s)) ELSE s

RECURSIVE rstrip(_)
rstrip(s) ==
    IF s # <<>> /\ s[Len(s)] \in Whitespace
    THEN rstrip(SubSeq(s, 1, Len(s) - 1)) ELSE s

\* Variant: only leading whitespace is removed.
strip_left_only(s) == lstrip(s)

strip(s) == rstrip(lstrip(s))

\* df.dropna(axis=1, how='all'): the positions of the columns that hold at
\* least one non-missing cell, in order.  A sheet without rows keeps none.
dropna_columns(sheet) ==
    SelectSeq([j \in 1..sheet.ncols |-> j],
              LAMBDA j : \E i \in DOMAIN sheet.rows : sheet.rows[i][j] # NaN)

\* Variant: more columns than the schema are required.
enough_columns_strict(kept) == Len(kept) > Len(column_names)

\* len(df.columns) >= len(column_names)
enough_columns(kept) == Len(kept) >= Len(column_names)

\* df.iloc[:, :15]; df.columns = column_names; df['Unidade'] = unit_name.strip()
rename_sheet(sheet, kept) ==
    [i \in DOMAIN sheet.rows |->
        [c \in Range(column_names) \cup {"Unidade"} |->
            IF c = "Unidade" THEN strip(sheet.name)
            ELSE sheet.rows[i][kept[ColIndex(c)]]]]

\* The for loop of lines 45-57 from sheet k on; acc holds list_of_dfs and the
\* warnings emitted so far.
RECURSIVE sheets_loop(_, _, _)
sheets_loop(all_sheets, k, acc) ==
    IF k > Len(all_sheets) THEN acc
    ELSE LET sheet == all_sheets[k]
             kept == dropna_columns(sheet)
         IN  sheets_loop(all_sheets, k + 1,
                IF enough_columns(kept)
                THEN [acc EXCEPT !.dfs = Append(@, rename_sheet(sheet, kept))]
                ELSE [acc EXCEPT !.msgs =
                        Append(@, Msg("warning", "SheetSkipped", sheet.name))])

\* What pd.to_datetime(..., errors='coerce') makes of a cell.
DateTable ==
    [v \in {"2020-01-05", "2020-01-05 00:00:00"} |-> "2020-01-05 00:00:00"]

to_datetime(v) == IF v \in DOMAIN DateTable THEN DateTable[v] ELSE NaT

\* combined_df.dropna(subset=['Nome', 'DN'])
dropna_rows(rows) ==
    SelectSeq(rows, LAMBDA r : r["Nome"] # NaN /\ r["DN"] # NaN)

coerce_DN(rows) ==
    [i \in DOMAIN rows |-> [rows[i] EXCEPT !["DN"] = to_datetime(@)]]

\* Variant: the check of line 63 is missing.
no_sheet_accepted_never(list_of_dfs) == FALSE

\* not list_of_dfs
no_sheet_accepted(list_of_dfs) == list_of_dfs = <<>>

\* Variant: the check of line 40 is missing.
empty_workbook_ignored(all_sheets) == FALSE

\* not all_sheets
empty_workbook(all_sheets) == all_sheets = <<>>

\* The body of load_data: the value returned and the elements it emits.
load_data(f) ==
    IF f.kind = "missing"
    THEN [result |-> None, msgs |-> <<Msg("error", "FileNotFound", <<>>)>>]
    ELSE IF f.kind = "corrupt"
    THEN [result |-> None, msgs |-> <<Msg("error", "ParseError", <<>>)>>]
    ELSE IF empty_workbook(f.sheets)
    THEN [result |-> None, msgs |-> <<Msg("warning", "EmptyWorkbook", <<>>)>>]
    ELSE LET loop == sheets_loop(f.sheets, 1, [dfs |-> <<>>, msgs |-> <<>>])
         IN  IF no_sheet_accepted(loop.dfs)
             THEN [result |-> None, msgs |-> loop.msgs]
             ELSE [result |-> DataFrame(coerce_DN(dropna_rows(Flatten(loop.dfs)))),
                   msgs |-> loop.msgs]

----------------------------------------------------------------------------
(* Aggregate metrics of the charts section *)

count_ok(rows, ind) ==
    SumSeq([i \in DOMAIN rows |-> IF rows[i][ind] = "OK" THEN 1 ELSE 0])

count_notna(rows, ind) ==
    SumSeq([i \in DOMAIN rows |-> IF notna(rows[i][ind]) THEN 1 ELSE 0])

\* Variant: missing values stay in the denominator.
compliance_over_all_rows(rows, ind) ==
    IF Len(rows) > 0 THEN Frac(count_ok(rows, ind) * 100, Len(rows)) ELSE Num(0)

\* (ok_count / total_count) * 100 if total_count > 0 else 0
compliance(rows, ind) ==
    LET ok_count == count_ok(rows, ind)
        total_count == count_notna(rows, ind)
    IN  IF total_count > 0 THEN Frac(ok_count * 100, total_count) ELSE Num(0)

\* The loop of lines 200-204.
compliance_data(rows) ==
    [k \in DOMAIN indicadores |->
        [Indicador |-> indicadores[k], Conformidade |-> compliance(rows, indicadores[k])]]

----------------------------------------------------------------------------
(* Idle values of the variables a specification does not use *)

NoFile == [kind |-> "missing", sheets |-> <<>>]
NoCache == [has |-> FALSE, result |-> None, msgs |-> <<>>]
NoMetrics ==
    [avg_score |-> Num(0), classification_geral |-> "", df_unit_score |-> <<>>,
     compliance_data |-> <<>>, df_display |-> Undefined]
NoRow == [c \in Range(indicadores) |-> NaN]
NoOut == [f |-> "none", v |-> 0]

ScriptIdle ==
    /\ dataDir = FALSE
    /\ file = NoFile
    /\ cache = NoCache
    /\ pc = "idle"
    /\ df = Undefined
    /\ df_filtered = Undefined
    /\ messages = <<>>
    /\ metrics = NoMetrics
    /\ served = "none"

----------------------------------------------------------------------------
(* calculate_score applied to every combination of indicator values *)

IndicatorVals == {"OK", "ok", " OK", NaN}

ScoreRows == [Range(indicadores) -> IndicatorVals]

InitScore ==
    /\ ScriptIdle
    /\ row \in ScoreRows
    /\ score = Num(0)
    /\ out = NoOut

CallCalculateScore ==
    /\ out.f = "none"
    /\ out' = [f |-> "calculate_score", v |-> calculate_score(row)]
    /\ UNCHANGED <<scriptVars, row, score>>

NextScore == CallCalculateScore

SpecScore == InitScore /\ [][NextScore]_vars

----------------------------------------------------------------------------
(* get_classification applied to every integer score *)

MaxScore == 100

InitClass ==
    /\ ScriptIdle
    /\ row = NoRow
    /\ score \in {Num(s) : s \in 0..MaxScore}
    /\ out = NoOut

CallGetClassification ==
    /\ out.f = "none"
    /\ out' = [f |-> "get_classification", v |-> get_classification(score)]
    /\ UNCHANGED <<scriptVars, row, score>>

NextClass == CallGetClassification

SpecClass == InitClass /\ [][NextClass]_vars

----------------------------------------------------------------------------
(* The compliance loop applied to filtered record sets *)

MaxRecs == 3

RateVals == {"OK", "ok", NaN}

\* Records whose indicators A and B take every value; C, D and E repeat them.
RateRows ==
    {[c \in Range(indicadores) |-> IF c \in {"A", "C", "E"} THEN a ELSE b] :
        a \in RateVals, b \in RateVals}

SeqsUpTo(S, n) == UNION {[1..k -> S] : k \in 0..n}

InitRate ==
    /\ dataDir = FALSE
    /\ file = NoFile
    /\ cache = NoCache
    /\ pc = "charts"
    /\ df = Undefined
    /\ df_filtered \in {DataFrame(rs) : rs \in SeqsUpTo(RateRows, MaxRecs) \ {<<>>}}
    /\ messages = <<>>
    /\ metrics = NoMetrics
    /\ served = "none"
    /\ row = NoRow
    /\ score = Num(0)
    /\ out = NoOut

CallCompliance ==
    /\ out.f = "none"
    /\ out' = [f |-> "compliance_data", v |-> compliance_data(df_filtered.rows)]
    /\ UNCHANGED <<scriptVars, row, score>>

NextRate == CallCompliance

SpecRate == InitRate /\ [][NextRate]_vars

----------------------------------------------------------------------------
(* Workbooks *)

\* Rows per sheet.
MaxRows == 2

ClinicA == <<" ", "C", "l", "i", "n", "i", "c", " ", "A", " ">>
UBS_B == <<"U", "B", "S", " ", "B">>
SheetNames == {ClinicA, UBS_B}

CorruptFile == [kind |-> "corrupt", sheets |-> <<>>]
Xlsx(sheets) == [kind |-> "xlsx", sheets |-> sheets]

\* A raw row: the cells of a record laid out in the columns of the template
\* (Nome, DN, ..., E, and one column more); the columns past ncols are cut,
\* the columns in blank are empty, the others hold the text "x".
Template(k) ==
    << k.Nome, k.DN, "x", "x", k.ind[1], "x", k.ind[2], "x", k.ind[3],
       "x", "x", "x", "x", k.ind[4], k.ind[5], "x" >>

MkRow(k, layout) ==
    LET t == Template(k)
    IN  [j \in 1..layout.ncols |-> IF j \in layout.blank THEN NaN ELSE t[j]]

SheetBodies(kinds, layouts, maxRows) ==
    {[ncols |-> l.ncols, rows |-> [i \in DOMAIN ks |-> MkRow(ks[i], l)]] :
        l \in layouts, ks \in SeqsUpTo(kinds, maxRows)}

InjSeqs(S, k) == {ns \in [1..k -> S] : \A i, j \in 1..k : ns[i] = ns[j] => i = j}

\* ns names the sheets and bs gives their bodies, in workbook order.
MkWorkbook(ns, bs) ==
    [i \in DOMAIN ns |-> [name |-> ns[i], ncols |-> bs[i].ncols, rows |-> bs[i].rows]]

----------------------------------------------------------------------------
(* The body of load_data applied to every file *)

AllOK == <<"OK", "OK", "OK", "OK", "OK">>
TwoOK == <<"OK", "ok", "OK", " OK", "ok">>

LoadRowKinds ==
    { [Nome |-> "Maria", DN |-> "2020-01-05", ind |-> AllOK],
      [Nome |-> NaN,     DN |-> "2020-01-05", ind |-> AllOK],
      [Nome |-> "Maria", DN |-> NaN,          ind |-> AllOK],
      [Nome |-> "Maria", DN |-> "abc",        ind |-> AllOK] }

\* 14, 15 and 16 columns, and 16 columns of which the third is empty.
LoadLayouts ==
    { [ncols |-> Len(column_names) - 1, blank |-> {}],
      [ncols |-> Len(column_names),     blank |-> {}],
      [ncols |-> Len(column_names) + 1, blank |-> {}],
      [ncols |-> Len(column_names) + 1, blank |-> {ColIndex("Data_1_Puericultura")}] }

LoadBodies == SheetBodies(LoadRowKinds, LoadLayouts, MaxRows)

InitLoad ==
    /\ dataDir = TRUE
    /\ \/ file \in {NoFile, CorruptFile}
       \/ \E k \in 0..Cardinality(SheetNames) :
            \E ns \in InjSeqs(SheetNames, k) :
                \E bs \in [1..k -> LoadBodies] : file = Xlsx(MkWorkbook(ns, bs))
    /\ cache = NoCache
    /\ pc = "load"
    /\ df = Undefined
    /\ df_filtered = Undefined
    /\ messages = <<>>
    /\ metrics = NoMetrics
    /\ served = "none"
    /\ row = NoRow
    /\ score = Num(0)
    /\ out = NoOut

CallLoadDataBody ==
    /\ out.f = "none"
    /\ out' = [f |-> "load_data", v |-> load_data(file)]
    /\ UNCHANGED <<scriptVars, row, score>>

NextLoad == CallLoadDataBody

SpecLoad == InitLoad /\ [][NextLoad]_vars

----------------------------------------------------------------------------
(* The script: one run after another, the file changing in between *)

all_classifications == {"Ótimo", "Bom", "Suficiente", "Regular"}

\* df['Pontuação'] = df.apply(calculate_score, axis=1)
\* df['Classificação'] = df['Pontuação'].apply(get_classification)
scored(rows) ==
    [i \in DOMAIN rows |->
        [c \in DOMAIN rows[i] \cup {"Pontuação", "Classificação"} |->
            IF c = "Pontuação" THEN calculate_score(rows[i])
            ELSE IF c = "Classificação"
            THEN get_classification(Num(calculate_score(rows[i])))
            ELSE rows[i][c]]]

\* df[df['Unidade'].isin(selected_units) & df['Classificação'].isin(...)]
filter_rows(rows, selected_units, selected_classifications) ==
    SelectSeq(rows, LAMBDA r : /\ r["Unidade"] \in selected_units
                               /\ r["Classificação"] \in selected_classifications)

\* Series.mean() of the scores of rows.
mean_score(rows) ==
    Frac(SumSeq([i \in DOMAIN rows |-> rows[i]["Pontuação"]]), Len(rows))

\* df_filtered.groupby('Unidade')['Pontuação'].mean()
unit_scores(rows) ==
    [u \in {rows[i]["Unidade"] : i \in DOMAIN rows} |->
        mean_score(SelectSeq(rows, LAMBDA r : r["Unidade"] = u))]

\* Series.dt.strftime('%d/%m/%Y')
strftime(v) == IF v = "2020-01-05 00:00:00" THEN "05/01/2020" ELSE NaN

display_cols ==
    {"Nome", "DN", "Unidade", "Pontuação", "Classificação", "A", "B", "C", "D", "E"}

\* df_filtered[list(display_cols.keys())] with the birth date formatted.
df_display(rows) ==
    [i \in DOMAIN rows |->
        [c \in display_cols |-> IF c = "DN" THEN strftime(rows[i][c]) ELSE rows[i][c]]]

\* The sheets the workbook of the script is made of: one valid record; two
\* valid records of different scores; two records, one without Nome and one
\* without DN; no record; and a valid record in a sheet of 14 columns.
Valid100 == [Nome |-> "Maria", DN |-> "2020-01-05", ind |-> AllOK]
Valid40 == [Nome |-> "Maria", DN |-> "2020-01-05", ind |-> TwoOK]
NoNome == [Nome |-> NaN, DN |-> "2020-01-05", ind |-> AllOK]
NoDN == [Nome |-> "Maria", DN |-> NaN, ind |-> AllOK]
Wide == [ncols |-> Len(column_names), blank |-> {}]
Narrow == [ncols |-> Len(column_names) - 1, blank |-> {}]

RunBodies ==
    {[ncols |-> p[1].ncols, rows |-> [i \in DOMAIN p[2] |-> MkRow(p[2][i], p[1])]] :
        p \in { <<Wide, <<Valid100>> >>, <<Wide, <<Valid40, Valid100>> >>,
                <<Wide, <<NoNome, NoDN>> >>, <<Wide, <<>> >>,
                <<Narrow, <<Valid100>> >> }}

Init ==
    /\ ScriptIdle
    /\ row = NoRow
    /\ score = Num(0)
    /\ out = NoOut

ResetRun ==
    /\ df' = Undefined
    /\ df_filtered' = Undefined
    /\ messages' = <<>>
    /\ metrics' = NoMetrics
    /\ served' = "none"

(* The environment, between two runs *)

MakeDataDir ==
    /\ pc = "idle" /\ ~dataDir
    /\ dataDir' = TRUE
    /\ UNCHANGED <<file, cache, pc, df, df_filtered, messages, metrics, served, unitVars>>

RemoveDataDir ==
    /\ pc = "idle" /\ dataDir
    /\ dataDir' = FALSE
    /\ file' = NoFile
    /\ UNCHANGED <<cache, pc, df, df_filtered, messages, metrics, served, unitVars>>

\* The workbook is created or replaced.
WriteFile ==
    /\ pc = "idle" /\ dataDir
    /\ \E k \in 0..Cardinality(SheetNames) :
         \E ns \in InjSeqs(SheetNames, k) :
            \E bs \in [1..k -> RunBodies] : file' = Xlsx(MkWorkbook(ns, bs))
    /\ file' # file
    /\ UNCHANGED <<dataDir, cache, pc, df, df_filtered, messages, metrics, served, unitVars>>

\* The file is replaced by one read_excel cannot parse.
DamageFile ==
    /\ pc = "idle" /\ dataDir /\ file # CorruptFile
    /\ file' = CorruptFile
    /\ UNCHANGED <<dataDir, cache, pc, df, df_filtered, messages, metrics, served, unitVars>>

DeleteFile ==
    /\ pc = "idle" /\ file # NoFile
    /\ file' = NoFile
    /\ UNCHANGED <<dataDir, cache, pc, df, df_filtered, messages, metrics, served, unitVars>>

(* A run of the script *)

\* Lines 117-119: the script starts and looks for the data folder.
RunStart ==
    /\ pc = "idle"
    /\ IF ~dataDir
       THEN /\ messages' = <<Msg("error", "NoDataDir", <<>>)>>
            /\ pc' = "detail"
       ELSE /\ messages' = <<>>
            /\ pc' = "load"
    /\ UNCHANGED <<dataDir, file, cache, df, df_filtered, metrics, served, unitVars>>

\* Line 121, no entry for the path: the body runs and its value and the
\* elements it emitted are stored.
LoadDataMiss ==
    /\ pc = "load" /\ ~cache.has
    /\ LET r == load_data(file)
       IN  /\ df' = r.result
           /\ messages' = messages \o r.msgs
           /\ cache' = [has |-> TRUE, result |-> r.result, msgs |-> r.msgs]
    /\ served' = "body"
    /\ pc' = "loaded"
    /\ UNCHANGED <<dataDir, file, df_filtered, metrics, unitVars>>

\* Line 121, an entry for the path: a copy of the stored value is returned
\* and the stored elements are replayed; the file is not looked at.
LoadDataHit ==
    /\ pc = "load" /\ cache.has
    /\ df' = cache.result
    /\ messages' = messages \o cache.msgs
    /\ served' = "cache"
    /\ pc' = "loaded"
    /\ UNCHANGED <<dataDir, file, cache, df_filtered, metrics, unitVars>>

\* Lines 123-124.
NoValidData ==
    /\ pc = "loaded"
    /\ is_None(df) \/ empty(df)
    /\ messages' = Append(messages, Msg("error", "NoValidData", <<>>))
    /\ pc' = "detail"
    /\ UNCHANGED <<dataDir, file, cache, df, df_filtered, metrics, served, unitVars>>

\* Lines 126-152: the scores, the two multiselects and the filter.
ScoreAndFilter ==
    /\ pc = "loaded"
    /\ ~(is_None(df) \/ empty(df))
    /\ LET rows == scored(df.rows)
           all_units == {rows[i]["Unidade"] : i \in DOMAIN rows}
       IN  /\ df' = DataFrame(rows)
           /\ \E selected_units \in SUBSET all_units :
                \E selected_classifications \in SUBSET all_classifications :
                    df_filtered' = DataFrame(filter_rows(rows, selected_units,
                                                         selected_classifications))
    /\ pc' = "filtered"
    /\ UNCHANGED <<dataDir, file, cache, messages, metrics, served, unitVars>>

\* Lines 154-155.
NoRowsSelected ==
    /\ pc = "filtered"
    /\ empty(df_filtered)
    /\ messages' = Append(messages, Msg("warning", "NoRowsSelected", <<>>))
    /\ pc' = "detail"
    /\ UNCHANGED <<dataDir, file, cache, df, df_filtered, metrics, served, unitVars>>

\* Lines 157-217: the metrics and the two charts.
Charts ==
    /\ pc = "filtered"
    /\ ~empty(df_filtered)
    /\ LET avg_score == mean_score(df_filtered.rows)
       IN  metrics' = [metrics EXCEPT
                !.avg_score = avg_score,
                !.classification_geral = get_classification(avg_score),
                !.df_unit_score = unit_scores(df_filtered.rows),
                !.compliance_data = compliance_data(df_filtered.rows)]
    /\ pc' = "detail"
    /\ UNCHANGED <<dataDir, file, cache, df, df_filtered, messages, served, unitVars>>

\* Lines 220-270, at the top level of the script: reading df_filtered raises
\* NameError when no branch assigned it.
DetailTable ==
    /\ pc = "detail"
    /\ IF df_filtered = Undefined
       THEN /\ pc' = "NameError"
            /\ UNCHANGED metrics
       ELSE /\ pc' = "done"
            /\ metrics' = [metrics EXCEPT
                    !.df_display = DataFrame(df_display(df_filtered.rows))]
    /\ UNCHANGED <<dataDir, file, cache, df, df_filtered, messages, served, unitVars>>

\* The run is over; the next one starts from a fresh namespace.
RunEnd ==
    /\ pc \in {"done", "NameError"}
    /\ pc' = "idle"
    /\ ResetRun
    /\ UNCHANGED <<dataDir, file, cache, unitVars>>

Next ==
    \/ MakeDataDir \/ RemoveDataDir \/ WriteFile \/ DamageFile \/ DeleteFile
    \/ RunStart \/ LoadDataMiss \/ LoadDataHit \/ NoValidData
    \/ ScoreAndFilter \/ NoRowsSelected \/ Charts \/ DetailTable \/ RunEnd

Spec == Init /\ [][Next]_vars

----------------------------------------------------------------------------
(* Properties of the scorer *)

OKCount(r) == Cardinality({c \in Range(indicadores) : r[c] = "OK"})

\* C1: calculate_score returns 20 times the number of the five indicator
\* fields that are exactly "OK"; a missing value and any other value both
\* count 0, and the result is one of 0, 20, 40, 60, 80, 100.
C1_ScoreCountsExactOK ==
    out.f = "calculate_score" =>
        /\ out.v = 20 * OKCount(row)
        /\ out.v \in {0, 20, 40, 60, 80, 100}

\* A record with two "OK", a missing value, "ok" and " OK" has scored 40.
C1_Witness ==
    /\ out.f = "calculate_score"
    /\ row["A"] = "OK" /\ row["B"] = "ok" /\ row["C"] = NaN
    /\ row["D"] = " OK" /\ row["E"] = "OK"
    /\ out.v = 40

\* C2: get_classification is total on the integer scores, with lower bounds
\* exclusive and upper bounds inclusive: Ótimo iff 75 < score <= 100, Bom iff
\* 50 < score <= 75, Suficiente iff 25 < score <= 50, Regular otherwise; so
\* 76 is Ótimo, 75 and 51 are Bom, 50 and 26 are Suficiente, 25 and 0 Regular.
C2_ClassificationBoundaries ==
    out.f = "get_classification" =>
        LET n == score.num IN
        /\ score.den = 1
        /\ out.v \in {"Ótimo", "Bom", "Suficiente", "Regular"}
        /\ out.v = "Ótimo" <=> (75 < n /\ n <= 100)
        /\ out.v = "Bom" <=> (50 < n /\ n <= 75)
        /\ out.v = "Suficiente" <=> (25 < n /\ n <= 50)
        /\ out.v = "Regular" <=> (n <= 25 \/ n > 100)
        /\ n = 76 => out.v = "Ótimo"
        /\ n \in {75, 51} => out.v = "Bom"
        /\ n \in {50, 26} => out.v = "Suficiente"
        /\ n \in {25, 0} => out.v = "Regular"

\* The score 75 has been classified, as Bom.
C2_Witness ==
    out.f = "get_classification" /\ score = Num(75) /\ out.v = "Bom"

\* C7: for each indicator the conformity rate of a filtered record set is
\* 100 * (rows exactly "OK") / (rows with the indicator present); rows where
\* it is missing are left out of the denominator; when no row has it the
\* rate is 0; the rate lies in 0..100.
C7_ConformityRate ==
    out.f = "compliance_data" =>
        \A k \in DOMAIN indicadores :
            LET rows == df_filtered.rows
                ind == indicadores[k]
                ok == Cardinality({i \in DOMAIN rows : rows[i][ind] = "OK"})
                present == Cardinality({i \in DOMAIN rows : rows[i][ind] # NaN})
                rate == out.v[k].Conformidade
            IN  /\ out.v[k].Indicador = ind
                /\ rate.den > 0
                /\ present = 0 => rate.num = 0
                /\ present > 0 => rate.num * present = 100 * ok * rate.den
                /\ 0 <= rate.num /\ rate.num <= 100 * rate.den

\* Three rows, all with B missing and A present: the rate of B is 0.
C7_Witness ==
    /\ out.f = "compliance_data"
    /\ Len(df_filtered.rows) = 3
    /\ \A i \in DOMAIN df_filtered.rows :
          df_filtered.rows[i]["B"] = NaN /\ df_filtered.rows[i]["A"] # NaN
    /\ out.v[2].Conformidade.num = 0
    /\ \E i \in DOMAIN df_filtered.rows : df_filtered.rows[i]["A"] = "OK"

----------------------------------------------------------------------------
(* Properties of load_data's body *)

\* The columns of a sheet that hold a value in some row.
NonEmptyCols(s) ==
    {j \in 1..s.ncols : \E i \in DOMAIN s.rows : s.rows[i][j] # NaN}

SchemaWidth == Cardinality(Range(column_names))

Skipped(s) == Cardinality(NonEmptyCols(s)) < SchemaWidth

Min(S) == CHOOSE x \in S : \A y \in S : x <= y

\* The rows of an accepted sheet whose first two remaining columns (Nome and
\* DN after renaming) both hold a value.
Surviving(s) ==
    LET c1 == Min(NonEmptyCols(s))
        c2 == Min(NonEmptyCols(s) \ {c1})
    IN  {i \in DOMAIN s.rows : s.rows[i][c1] # NaN /\ s.rows[i][c2] # NaN}

\* What the sheet names of the model are once trimmed.
Trimmed(name) ==
    IF name = ClinicA THEN <<"C", "l", "i", "n", "i", "c", " ", "A">> ELSE name

RowsOfUnit(rows, u) == {i \in DOMAIN rows : rows[i]["Unidade"] = u}

\* The unit expected at each position of the result: sheet by sheet in
\* workbook order, one entry per surviving row of an accepted sheet.
RECURSIVE ExpectedUnits(_)
ExpectedUnits(sheets) ==
    IF sheets = <<>> THEN <<>>
    ELSE LET s == Head(sheets)
         IN  (IF Skipped(s) THEN <<>>
              ELSE [i \in 1..Cardinality(Surviving(s)) |-> Trimmed(s.name)])
             \o ExpectedUnits(Tail(sheets))

Loaded == out.f = "load_data" /\ file.kind = "xlsx"

\* C3: a sheet left with fewer than 15 columns once its empty columns are
\* dropped is skipped in full, with a warning naming it; every sheet with at
\* least 15 is ingested all the same, whatever the order of the sheets.
C3_BadSheetSkippedOthersIngested ==
    Loaded =>
        \A k \in DOMAIN file.sheets :
            LET s == file.sheets[k]
                warned == \E m \in Range(out.v.msgs) :
                            m = Msg("warning", "SheetSkipped", s.name)
                got == RowsOfUnit(out.v.result.rows, Trimmed(s.name))
            IN  IF Skipped(s)
                THEN warned /\ got = {}
                ELSE /\ ~warned
                     /\ out.v.result.kind = "DataFrame"
                     /\ Cardinality(got) = Cardinality(Surviving(s))

\* A sheet with rows is skipped and the sheet after it, and in another
\* workbook the sheet before it, is ingested.
C3_Witness ==
    /\ Loaded
    /\ Len(file.sheets) = 2
    /\ Skipped(file.sheets[1]) /\ file.sheets[1].rows # <<>>
    /\ ~Skipped(file.sheets[2])
    /\ Len(out.v.result.rows) = 2
    /\ Len(out.v.msgs) = 1

\* C4: no row returned by load_data has a missing birth date.
C4_NoNullBirthDate ==
    out.f = "load_data" =>
        \A i \in DOMAIN out.v.result.rows : notna(out.v.result.rows[i]["DN"])

\* C6: every returned row carries the trimmed name of the sheet it came
\* from as its unit.
C6_UnitIsTrimmedSheetName ==
    (Loaded /\ out.v.result.kind = "DataFrame") =>
        /\ Len(out.v.result.rows) = Len(ExpectedUnits(file.sheets))
        /\ \A i \in DOMAIN out.v.result.rows :
              out.v.result.rows[i]["Unidade"] = ExpectedUnits(file.sheets)[i]

\* Rows of the sheet " Clinic A " and of the sheet "UBS B" are returned.
C6_Witness ==
    /\ Loaded
    /\ Len(out.v.result.rows) = 2
    /\ file.sheets[1].name = ClinicA
    /\ out.v.result.rows[1]["Unidade"] = <<"C", "l", "i", "n", "i", "c", " ", "A">>
    /\ out.v.result.rows[2]["Unidade"] = UBS_B

\* C8: load_data returns None when no sheet was accepted, and an empty
\* dataset, which is not None, when a sheet was accepted and every row was
\* dropped for a missing Nome or DN.
C8_NoneVersusEmpty ==
    out.f = "load_data" =>
        LET accepted == IF file.kind = "xlsx"
                        THEN {k \in DOMAIN file.sheets : ~Skipped(file.sheets[k])}
                        ELSE {}
        IN  /\ accepted = {} => out.v.result = None
            /\ accepted # {} => out.v.result.kind = "DataFrame"
            /\ (/\ accepted # {}
                /\ \A k \in accepted : Surviving(file.sheets[k]) = {})
                    => (out.v.result = DataFrame(<<>>) /\ out.v.result # None)

\* A sheet was accepted and both of its rows were dropped.
C8_Witness ==
    /\ Loaded
    /\ \E k \in DOMAIN file.sheets :
          ~Skipped(file.sheets[k]) /\ Len(file.sheets[k].rows) = 2
    /\ out.v.result = DataFrame(<<>>)

----------------------------------------------------------------------------
(* Properties of the script *)

\* C5: when the workbook holds no sheet, load_data reports the empty
\* workbook and returns no dataset, the script reports that no valid data
\* was found, and nothing is scored, filtered or rendered from data.
C5_EmptyWorkbookNoOutput ==
    (served = "body" /\ file = Xlsx(<<>>)) =>
        /\ df = None
        /\ \E i \in DOMAIN messages : messages[i].kind = "EmptyWorkbook"
        /\ df_filtered = Undefined
        /\ metrics = NoMetrics
        /\ pc \in {"loaded", "detail", "NameError"}
        /\ pc # "loaded" =>
              \E i \in DOMAIN messages : messages[i] = Msg("error", "NoValidData", <<>>)

\* The body of load_data has read a workbook without sheets and the run is
\* past the load guard.
C5_Witness ==
    /\ served = "body"
    /\ file = Xlsx(<<>>)
    /\ pc = "detail"
    /\ Len(messages) = 2

\* C9: every call of the cached load_data returns what ingesting the file
\* as it is now would return.
C9_CacheNeverStale ==
    pc = "loaded" => df = load_data(file).result

\* C10: whenever the detail-table section is reached, df_filtered has been
\* assigned.
C10_FilteredAssignedBeforeDetail ==
    pc = "detail" => df_filtered # Undefined

====
